---------------------------- MODULE Spec2Model ----------------------------
(***************************************************************************)
(* A model of the Paris 2024 Olympics dashboard (Streamlit):               *)
(*   utils/data_loader.py  memoized CSV loading, continent enrichment,     *)
(*                         apply_filters                                   *)
(*   utils/filters.py      sidebar filter widgets, get_filter_summary      *)
(*   1_Overview.py, pages/ the page scripts, re-executed on every          *)
(*                         interaction of the user                         *)
(*                                                                         *)
(* A DataFrame is a record [columns, index, rows]: the set of column       *)
(* names, the sequence of index labels and the sequence of rows, a row     *)
(* being a function from the column names to the cell values.  A missing   *)
(* cell (pandas NaN) of a text column is the value NaN.                    *)
(***************************************************************************)
EXTENDS Integers, Sequences, FiniteSets, TLC

VARIABLES
    disk,        \* the CSV files: file name -> DataFrame as pd.read_csv returns it
    cache,       \* st.cache_data: cached function name -> cached return value
    reads,       \* file name -> number of pd.read_csv calls so far
    page,        \* the page script the session shows ("none" before the first render)
    widgets,     \* the session's widget state of the sidebar filters
    lastEvent,   \* the interaction that caused the last script run
    out,         \* what the last script run computed and displayed
    fcall        \* a call of a utility function: its arguments and its outcome

vars == <<disk, cache, reads, page, widgets, lastEvent, out, fcall>>

-----------------------------------------------------------------------------
(* Bounds of the model *)

\* reads of one file after which no further script run is explored
MaxReads == 3
\* most widget settings away from their defaults that are explored: selected
\* values of the three multiselects plus unchecked medal boxes
MaxChanges == 3
\* most rows of a table handed to apply_filters
MaxRows == 2

-----------------------------------------------------------------------------
(* Values *)

NaN == "NaN"

Range(s) == {s[i] : i \in DOMAIN s}

GOLD == "Gold Medal"
SILVER == "Silver Medal"
BRONZE == "Bronze Medal"

\* filters.py:111, the valid medal types in the order of the checkboxes
medal_types == <<GOLD, SILVER, BRONZE>>

\* Python's order of the strings the model uses (sorted() of filters.py:56,80,96)
AlphaOrder ==
    <<"AIN", "AUS", "Africa", "Asia", "BRA", "EOR", "Europe", "FRA", "Female",
      "France", "Golf", "JPN", "Judo", "KEN", "Male", "North America", "Oceania",
      "Other", "Refugee Olympic Team", "South America", "USA", "United States">>

sorted(S) == SelectSeq(AlphaOrder, LAMBDA x : x \in S)

-----------------------------------------------------------------------------
(* pandas *)

EmptyFrame(cols) == [columns |-> cols, index |-> <<>>, rows |-> <<>>]

\* a frame as read from a CSV file: RangeIndex 0..n-1
Frame(cols, rws) ==
    [columns |-> cols, index |-> [i \in 1..Len(rws) |-> i - 1], rows |-> rws]

nrows(df) == Len(df.rows)

\* DataFrame.copy(): a new frame with the same columns, index and cells
copy(df) == [columns |-> df.columns, index |-> df.index, rows |-> df.rows]

RECURSIVE KeepPositions(_, _, _)
KeepPositions(n, i, mask) ==
    IF i > n THEN <<>>
    ELSE (IF mask[i] THEN <<i>> ELSE <<>>) \o KeepPositions(n, i + 1, mask)

\* df[mask]: the rows whose mask is True, with their index labels, in order
BoolIndex(df, mask) ==
    LET ps == KeepPositions(nrows(df), 1, mask)
    IN  [columns |-> df.columns,
         index   |-> [k \in 1..Len(ps) |-> df.index[ps[k]]],
         rows    |-> [k \in 1..Len(ps) |-> df.rows[ps[k]]]]

\* df[col].isin(values)
isin(df, col, values) ==
    [i \in 1..nrows(df) |-> df.rows[i][col] \in Range(values)]

\* df[cols]: the projection on some columns
Project(df, cols) ==
    [columns |-> cols,
     index   |-> df.index,
     rows    |-> [i \in 1..nrows(df) |-> [c \in cols |-> df.rows[i][c]]]]

\* df[col] = values: assignment of a whole column, one value per row
WithColumn(df, col, values) ==
    [columns |-> df.columns \cup {col},
     index   |-> df.index,
     rows    |-> [i \in 1..nrows(df) |->
                    [c \in df.columns \cup {col} |->
                        IF c = col THEN values[i] ELSE df.rows[i][c]]]]

RECURSIVE Flatten(_)
Flatten(ss) == IF ss = <<>> THEN <<>> ELSE Head(ss) \o Flatten(Tail(ss))

\* left.merge(right, left_on=lk, right_on=rk, how='left'): every left row in
\* order, once per matching right row; right cells are NaN without a match
merge_left(left, right, lk, rk) ==
    LET cols == left.columns \cup right.columns
        join(l, r) == [c \in cols |-> IF c \in left.columns THEN l[c] ELSE r[c]]
        nomatch(l) == [c \in cols |-> IF c \in left.columns THEN l[c] ELSE NaN]
        matches(l) == SelectSeq(right.rows, LAMBDA r : r[rk] = l[lk])
        expand(l)  == IF matches(l) = <<>> THEN <<nomatch(l)>>
                      ELSE [k \in 1..Len(matches(l)) |-> join(l, matches(l)[k])]
    IN  Frame(cols, Flatten([i \in 1..nrows(left) |-> expand(left.rows[i])]))

RECURSIVE SumSeq(_)
SumSeq(s) == IF s = <<>> THEN 0 ELSE Head(s) + SumSeq(Tail(s))

\* df[col].sum()
colsum(df, col) == SumSeq([i \in 1..nrows(df) |-> df.rows[i][col]])

-----------------------------------------------------------------------------
(* The CSV files of the data directory *)

Files ==
    {"athletes", "coaches", "events", "medals", "medals_total", "medallists",
     "nocs", "schedules", "teams", "venues"}

\* A text cell holding a date: the text is the sequence of the numbers it
\* spells, <<2024, 7, 27>> being <<2024, 7, 27>> and "2024-07-27 10:30" being
\* <<2024, 7, 27, 10, 30>>.  A Timestamp always has a time of day.
DateStr(d) == [dtype |-> "object", value |-> d]
Timestamp(d) == [dtype |-> "datetime64[ns]", value |-> d]

\* the moment a date text names: midnight when it spells no time of day
Midnight(d) == IF Len(d) = 3 THEN d \o <<0, 0>> ELSE d

\* pd.to_datetime of one cell
to_datetime(cell) == Timestamp(Midnight(cell.value))

\* Timestamp.strftime('%Y-%m-%d'): the text of the day, without the time
strftime_day(ts) == DateStr(SubSeq(ts.value, 1, 3))

NocsRow(c, n) == [code |-> c, country |-> n]

NocsCsv ==
    Frame({"code", "country"},
          << NocsRow("FRA", "France"),
             NocsRow("USA", "United States"),
             NocsRow("EOR", "Refugee Olympic Team") >>)

MedalsTotalColumns ==
    {"country_code", "country", GOLD, SILVER, BRONZE}

MedalsTotalRow(c, n, g, s, b) ==
    [country_code |-> c, country |-> n] @@ (GOLD :> g) @@ (SILVER :> s) @@ (BRONZE :> b)

\* the medals_total.csv files the model starts from; AIN has no row in nocs.csv
MedalsTotalFiles ==
    { Frame(MedalsTotalColumns,
            << MedalsTotalRow("USA", "United States", 2, 1, 1),
               MedalsTotalRow("FRA", "France", 1, 2, 0) >>),
      Frame(MedalsTotalColumns,
            << MedalsTotalRow("FRA", "France", 1, 1, 1),
               MedalsTotalRow("AIN", "AIN", 0, 1, 1),
               MedalsTotalRow("EOR", "Refugee Olympic Team", 0, 0, 1),
               MedalsTotalRow("USA", "United States", 2, 0, 1) >>) }

MedalsRow(c, n, t, d, s) ==
    [country_code |-> c, country |-> n, medal_type |-> t,
     medal_date |-> DateStr(d), discipline |-> s]

MedalsCsv ==
    Frame({"country_code", "country", "medal_type", "medal_date", "discipline"},
          << MedalsRow("USA", "United States", GOLD, <<2024, 7, 27>>, "Judo"),
             MedalsRow("FRA", "France", SILVER, <<2024, 7, 27>>, "Judo"),
             MedalsRow("EOR", "Refugee Olympic Team", BRONZE, <<2024, 7, 28>>, "Golf") >>)

ScheduleRow(d, m, s) == [day |-> DateStr(d), event_medal |-> m, discipline |-> s]

SchedulesCsv ==
    Frame({"day", "event_medal", "discipline"},
          << ScheduleRow(<<2024, 7, 27>>, 1, "Judo"),
             ScheduleRow(<<2024, 7, 28>>, 0, "Golf"),
             ScheduleRow(<<2024, 7, 28>>, 1, "Golf") >>)

AthletesCsv ==
    Frame({"country_code", "name"},
          << [country_code |-> "FRA", name |-> "A"],
             [country_code |-> "USA", name |-> "B"],
             [country_code |-> "EOR", name |-> "C"] >>)

EventsCsv ==
    Frame({"sport", "event"},
          << [sport |-> "Judo", event |-> "Men -60 kg"],
             [sport |-> "Golf", event |-> "Men's Individual"],
             [sport |-> "Judo", event |-> "Women -48 kg"] >>)

NamesCsv(n) == Frame({"name"}, << [name |-> n] >>)

\* the data directory with a given medals_total.csv
Disk(medals_total) ==
    [f \in Files |->
        CASE f = "athletes"     -> AthletesCsv
          [] f = "coaches"      -> NamesCsv("coach")
          [] f = "events"       -> EventsCsv
          [] f = "medals"       -> MedalsCsv
          [] f = "medals_total" -> medals_total
          [] f = "medallists"   -> NamesCsv("B")
          [] f = "nocs"         -> NocsCsv
          [] f = "schedules"    -> SchedulesCsv
          [] f = "teams"        -> NamesCsv("team")
          [] f = "venues"       -> NamesCsv("venue")]

-----------------------------------------------------------------------------
(* utils/data_loader.py: memoized loading *)

\* The server process: the st.cache_data store and the count of file reads.
\* A function of the program takes a world w = [cache, reads] and returns
\* [ret, w]: its value and the world it leaves.

\* pd.read_csv(os.path.join(DATA_PATH, file + ".csv"))
read_csv(file, w) ==
    [ret |-> disk[file], w |-> [w EXCEPT !.reads[file] = @ + 1]]

\* a function without the decorator: every call runs the body
cache_data_off(fn, body, w) == body

\* @st.cache_data on a function fn without arguments, called in the world w;
\* body is what running the function's body in w returns.  The first call
\* runs the body and stores its value, every later call returns a copy of the
\* stored value and runs nothing.
cache_data(fn, body, w) ==
    IF fn \in DOMAIN w.cache
    THEN [ret |-> w.cache[fn], w |-> w]
    ELSE LET r == body
         IN  [ret |-> r.ret,
              w   |-> [r.w EXCEPT !.cache = (fn :> r.ret) @@ r.w.cache]]

load_athletes(w)     == cache_data("load_athletes", read_csv("athletes", w), w)
load_coaches(w)      == cache_data("load_coaches", read_csv("coaches", w), w)
load_events(w)       == cache_data("load_events", read_csv("events", w), w)
load_medals(w)       == cache_data("load_medals", read_csv("medals", w), w)
load_medals_total(w) == cache_data("load_medals_total", read_csv("medals_total", w), w)
load_medalists(w)    == cache_data("load_medalists", read_csv("medallists", w), w)
load_nocs(w)         == cache_data("load_nocs", read_csv("nocs", w), w)
load_schedule(w)     == cache_data("load_schedule", read_csv("schedules", w), w)
load_teams(w)        == cache_data("load_teams", read_csv("teams", w), w)
load_venues(w)       == cache_data("load_venues", read_csv("venues", w), w)

Continents ==
    {"Europe", "Asia", "Africa", "North America", "South America", "Oceania"}

\* the entries of continent_map for the codes of the model
continent_map ==
    [c \in {"AUS", "BRA", "FRA", "JPN", "KEN", "USA"} |->
        CASE c = "AUS" -> "Oceania"
          [] c = "BRA" -> "South America"
          [] c = "FRA" -> "Europe"
          [] c = "JPN" -> "Asia"
          [] c = "KEN" -> "Africa"
          [] c = "USA" -> "North America"]

get_continent_mapping(w) ==
    cache_data("get_continent_mapping", [ret |-> continent_map, w |-> w], w)

\* Series.map(dict): NaN for a value that is no key
map_dict(x, d) == IF x \in DOMAIN d THEN d[x] ELSE NaN

\* Series.fillna(value)
fillna(x, value) == IF x = NaN THEN value ELSE x

\* nocs['continent'] = nocs['code'].map(continent_map).fillna('Other')
enrich_nocs(nocs, cmap) ==
    WithColumn(nocs, "continent",
               [i \in 1..nrows(nocs) |->
                   fillna(map_dict(nocs.rows[i]["code"], cmap), "Other")])

load_all_data_body(w) ==
    LET a  == load_athletes(w)
        mt == load_medals_total(a.w)
        n  == load_nocs(mt.w)
        cm == get_continent_mapping(n.w)
        nocs == enrich_nocs(n.ret, cm.ret)
        co == load_coaches(cm.w)
        ev == load_events(co.w)
        me == load_medals(ev.w)
        ml == load_medalists(me.w)
        sc == load_schedule(ml.w)
        te == load_teams(sc.w)
        ve == load_venues(te.w)
    IN  [ret |-> [athletes     |-> a.ret,
                  coaches      |-> co.ret,
                  events       |-> ev.ret,
                  medals       |-> me.ret,
                  medals_total |-> mt.ret,
                  medalists    |-> ml.ret,
                  nocs         |-> nocs,
                  schedule     |-> sc.ret,
                  teams        |-> te.ret,
                  venues       |-> ve.ret],
         w |-> ve.w]

load_all_data(w) == cache_data("load_all_data", load_all_data_body(w), w)

\* @st.cache_data get_data() of a page script.  Streamlit keys a cached function
\* by its module, its qualified name and its source text; the four page scripts
\* run as the same module and define get_data with the same text, so they
\* share one entry.
get_data(w) == cache_data("get_data", load_all_data(w), w)

-----------------------------------------------------------------------------
(* utils/data_loader.py: apply_filters *)

\* the key is present, whatever its list holds
Selected_present(filters, key) == key \in DOMAIN filters

\* filters.get(key) is truthy: the key is present and its list is not empty
Selected(filters, key) == key \in DOMAIN filters /\ filters[key] # <<>>

\* a lookup of the selected values instead of a mask: one row per value, the
\* first row holding it, or an empty row for a value no row holds
keep_isin_lookup(df, col, values) ==
    LET hit(v) == {i \in 1..nrows(df) : df.rows[i][col] = v}
        first(v) == CHOOSE i \in hit(v) : \A j \in hit(v) : i <= j
    IN  [columns |-> df.columns,
         index   |-> [k \in 1..Len(values) |->
                        IF hit(values[k]) = {} THEN -1 ELSE df.index[first(values[k])]],
         rows    |-> [k \in 1..Len(values) |->
                        IF hit(values[k]) = {}
                        THEN [c \in df.columns |-> IF c = col THEN values[k] ELSE NaN]
                        ELSE df.rows[first(values[k])]]]

\* the rows gathered value by value, in the order of the selection list
keep_isin_by_value(df, col, values) ==
    LET rowsOf(v) == KeepPositions(nrows(df), 1, [i \in 1..nrows(df) |-> df.rows[i][col] = v])
        ps == Flatten([k \in 1..Len(values) |-> rowsOf(values[k])])
    IN  [columns |-> df.columns,
         index   |-> [k \in 1..Len(ps) |-> df.index[ps[k]]],
         rows    |-> [k \in 1..Len(ps) |-> df.rows[ps[k]]]]

\* df[df[col].isin(values)]
keep_isin(df, col, values) == BoolIndex(df, isin(df, col, values))

apply_filters(data, filters) ==
    LET df0 == copy(data)
        df1 == IF Selected(filters, "countries")
               THEN IF "country_code" \in df0.columns
                    THEN keep_isin(df0, "country_code", filters["countries"])
                    ELSE IF "code" \in df0.columns
                         THEN keep_isin(df0, "code", filters["countries"])
                         ELSE df0
               ELSE df0
        df2 == IF Selected(filters, "sports") /\ "sport" \in df1.columns
               THEN keep_isin(df1, "sport", filters["sports"])
               ELSE df1
        df3 == IF Selected(filters, "medal_types") /\ "medal_type" \in df2.columns
               THEN keep_isin(df2, "medal_type", filters["medal_types"])
               ELSE df2
        df4 == IF Selected(filters, "continents") /\ "continent" \in df3.columns
               THEN keep_isin(df3, "continent", filters["continents"])
               ELSE df3
    IN  df4

-----------------------------------------------------------------------------
(* utils/filters.py *)

\* the widget values of a new session: nothing selected, all boxes checked
DefaultWidgets ==
    [countries |-> <<>>, continents |-> <<>>, sports |-> <<>>,
     gold |-> TRUE, silver |-> TRUE, bronze |-> TRUE]

\* Series.unique() of a column, NaN dropped where the code drops it
unique(df, col) == {df.rows[i][col] : i \in 1..nrows(df)}

\* the sidebar with the checked medal types appended in the order bronze,
\* silver, gold
create_sidebar_filters_bronze_first(data, wd, clicked) ==
    LET all_countries  == sorted(unique(data.nocs, "code"))
        all_continents == sorted(unique(data.nocs, "continent"))
        all_sports     == sorted(unique(data.events, "sport") \ {NaN})
        selected == (IF wd.bronze THEN <<BRONZE>> ELSE <<>>)
                    \o (IF wd.silver THEN <<SILVER>> ELSE <<>>)
                    \o (IF wd.gold THEN <<GOLD>> ELSE <<>>)
    IN  [filters |-> [countries   |-> wd.countries,
                      continents  |-> wd.continents,
                      sports      |-> wd.sports,
                      medal_types |-> selected],
         options |-> [countries  |-> all_countries,
                      continents |-> all_continents,
                      sports     |-> all_sports],
         rerun   |-> clicked]

\* One run of create_sidebar_filters with the session's widget values wd;
\* clicked: this run was caused by a click on 'Clear All Filters'.
\* rerun: st.rerun() was called, the script run stops here.
create_sidebar_filters(data, wd, clicked) ==
    LET all_countries  == sorted(unique(data.nocs, "code"))
        all_continents == sorted(unique(data.nocs, "continent"))
        all_sports     == sorted(unique(data.events, "sport") \ {NaN})
        selected == (IF wd.gold THEN <<GOLD>> ELSE <<>>)
                    \o (IF wd.silver THEN <<SILVER>> ELSE <<>>)
                    \o (IF wd.bronze THEN <<BRONZE>> ELSE <<>>)
    IN  [filters |-> [countries   |-> wd.countries,
                      continents  |-> wd.continents,
                      sports      |-> wd.sports,
                      medal_types |-> selected],
         options |-> [countries  |-> all_countries,
                      continents |-> all_continents,
                      sports     |-> all_sports],
         rerun   |-> clicked]

RECURSIVE join(_, _)
\* sep.join(parts)
join(sep, parts) ==
    IF parts = <<>> THEN ""
    ELSE IF Len(parts) = 1 THEN parts[1]
    ELSE parts[1] \o sep \o join(sep, Tail(parts))

\* the medal types are mentioned whenever some are selected
get_filter_summary_all(filters) ==
    LET s1 == IF Selected(filters, "countries")
              THEN <<ToString(Len(filters["countries"])) \o " countries">> ELSE <<>>
        s2 == IF Selected(filters, "continents")
              THEN <<ToString(Len(filters["continents"])) \o " continents">> ELSE <<>>
        s3 == IF Selected(filters, "sports")
              THEN <<ToString(Len(filters["sports"])) \o " sports">> ELSE <<>>
        s4 == IF Selected(filters, "medal_types")
              THEN <<ToString(Len(filters["medal_types"])) \o " medal types">> ELSE <<>>
        summaries == s1 \o s2 \o s3 \o s4
    IN  IF summaries # <<>>
        THEN "Active filters: " \o join(", ", summaries)
        ELSE "No filters active (showing all data)"

get_filter_summary(filters) ==
    LET s1 == IF Selected(filters, "countries")
              THEN <<ToString(Len(filters["countries"])) \o " countries">> ELSE <<>>
        s2 == IF Selected(filters, "continents")
              THEN <<ToString(Len(filters["continents"])) \o " continents">> ELSE <<>>
        s3 == IF Selected(filters, "sports")
              THEN <<ToString(Len(filters["sports"])) \o " sports">> ELSE <<>>
        s4 == IF Selected(filters, "medal_types") /\ Len(filters["medal_types"]) < 3
              THEN <<ToString(Len(filters["medal_types"])) \o " medal types">> ELSE <<>>
        summaries == s1 \o s2 \o s3 \o s4
    IN  IF summaries # <<>>
        THEN "Active filters: " \o join(", ", summaries)
        ELSE "No filters active (showing all data)"

-----------------------------------------------------------------------------
(* The page scripts *)

SidebarPages == {"Overview", "Global_Analysis", "Athlete_Performance", "Sports_and_Events"}
Pages == SidebarPages \cup {"Head_to_Head", "Daily_Highlights"}

\* nocs[['code', 'continent']]
nocs_continent(data) == Project(data.nocs, {"code", "continent"})

\* df['Gold Medal'] + df['Silver Medal'] + df['Bronze Medal']
medal_columns_sum(df) ==
    [i \in 1..nrows(df) |-> df.rows[i][GOLD] + df.rows[i][SILVER] + df.rows[i][BRONZE]]

\* position of the first row with the largest value of col
FirstMax(rws, col) ==
    CHOOSE i \in 1..Len(rws) :
        /\ \A j \in 1..Len(rws) : rws[j].row[col] <= rws[i].row[col]
        /\ \A j \in 1..(i - 1) : rws[j].row[col] < rws[i].row[col]

RemoveAt(s, i) == SubSeq(s, 1, i - 1) \o SubSeq(s, i + 1, Len(s))

RECURSIVE Largest(_, _, _)
Largest(rws, n, col) ==
    IF n = 0 \/ rws = <<>> THEN <<>>
    ELSE LET i == FirstMax(rws, col)
         IN  <<rws[i]>> \o Largest(RemoveAt(rws, i), n - 1, col)

\* the rows of a frame with their index labels, and back
Labelled(df) == [i \in 1..nrows(df) |-> [label |-> df.index[i], row |-> df.rows[i]]]
Unlabelled(cols, rws) ==
    [columns |-> cols,
     index   |-> [i \in 1..Len(rws) |-> rws[i].label],
     rows    |-> [i \in 1..Len(rws) |-> rws[i].row]]

\* df.nlargest(n, col): the n rows with the largest col, largest first, ties in
\* the order of the frame (keep='first')
nlargest(df, n, col) == Unlabelled(df.columns, Largest(Labelled(df), n, col))

RECURSIVE InsertAsc(_, _, _)
InsertAsc(sortedRows, x, col) ==
    IF sortedRows = <<>> THEN <<x>>
    ELSE IF x.row[col] < Head(sortedRows).row[col]
         THEN <<x>> \o sortedRows
         ELSE <<Head(sortedRows)>> \o InsertAsc(Tail(sortedRows), x, col)

RECURSIVE SortAsc(_, _)
SortAsc(rws, col) ==
    IF rws = <<>> THEN <<>>
    ELSE InsertAsc(SortAsc(SubSeq(rws, 1, Len(rws) - 1), col), rws[Len(rws)], col)

\* df.sort_values(col, ascending=True); equal values keep their order, as the
\* insertion sort numpy uses on the short arrays of the top-10 chart leaves them
sort_values(df, col) == Unlabelled(df.columns, SortAsc(Labelled(df), col))

\* the sum of two of the three medal columns
kpi_total_medals_two(df) == colsum(df, GOLD) + colsum(df, SILVER)

\* int(df[['Gold Medal', 'Silver Medal', 'Bronze Medal']].sum().sum()): the
\* sum of the three column sums
kpi_total_medals(df) ==
    SumSeq([i \in 1..3 |-> colsum(df, medal_types[i])])

\* rows of the top-N chart (1_Overview.py:300)
TopN == 10

\* the first rows of the table in place of the largest
top_countries_first_rows(filtered_medals) ==
    LET m == IF nrows(filtered_medals) < TopN THEN nrows(filtered_medals) ELSE TopN
    IN  sort_values([columns |-> filtered_medals.columns,
                     index   |-> SubSeq(filtered_medals.index, 1, m),
                     rows    |-> SubSeq(filtered_medals.rows, 1, m)], "total")

\* 1_Overview.py:300, the rows of the Top 10 chart
top_countries(filtered_medals) ==
    sort_values(nlargest(filtered_medals, TopN, "total"), "total")

\* 1_Overview.py from line 125 on: the KPIs and the two charts
Overview_body(data, filters) ==
    LET m0 == merge_left(copy(data.medals_total), nocs_continent(data),
                         "country_code", "code")
        e0 == copy(data.events)
        a0 == copy(data.athletes)
        m1 == IF filters.countries # <<>>
              THEN keep_isin(m0, "country_code", filters.countries) ELSE m0
        a1 == IF filters.countries # <<>>
              THEN keep_isin(a0, "country_code", filters.countries) ELSE a0
        m2 == IF filters.continents # <<>>
              THEN keep_isin(m1, "continent", filters.continents) ELSE m1
        a2 == IF filters.continents # <<>>
              THEN keep_isin(merge_left(a1, nocs_continent(data), "country_code", "code"),
                             "continent", filters.continents)
              ELSE a1
        e1 == IF filters.sports # <<>>
              THEN keep_isin(e0, "sport", filters.sports) ELSE e0
        filtered_medals == WithColumn(m2, "total", medal_columns_sum(m2))
    IN  [merged          |-> m0,
         total_athletes  |-> nrows(a2),
         total_countries |-> IF nrows(a2) > 0 THEN Cardinality(unique(a2, "country_code")) ELSE 0,
         total_sports    |-> IF nrows(e1) > 0 THEN Cardinality(unique(e1, "sport")) ELSE 0,
         total_medals    |-> kpi_total_medals(m2),
         total_events    |-> nrows(e1),
         medal_dist      |-> [Gold   |-> colsum(m2, GOLD),
                              Silver |-> colsum(m2, SILVER),
                              Bronze |-> colsum(m2, BRONZE)],
         filtered_medals |-> filtered_medals,
         top_countries   |-> top_countries(filtered_medals)]

\* pages/2_Global_Analysis.py lines 74-175: the two medal tables of the page
Global_Analysis_body(data, filters) ==
    LET m0 == merge_left(copy(data.medals_total), nocs_continent(data),
                         "country_code", "code")
        m1 == IF filters.countries # <<>>
              THEN keep_isin(m0, "country_code", filters.countries) ELSE m0
        m2 == IF filters.continents # <<>>
              THEN keep_isin(m1, "continent", filters.continents) ELSE m1
        d0 == merge_left(copy(data.medals), nocs_continent(data), "country_code", "code")
        d1 == IF filters.countries # <<>>
              THEN keep_isin(d0, "country_code", filters.countries) ELSE d0
        d2 == IF filters.continents # <<>>
              THEN keep_isin(d1, "continent", filters.continents) ELSE d1
        d3 == IF filters.sports # <<>>
              THEN keep_isin(d2, "discipline", filters.sports) ELSE d2
        d4 == IF filters.medal_types # <<>>
              THEN keep_isin(d3, "medal_type", filters.medal_types) ELSE d3
    IN  [merged        |-> m0,
         medals_df     |-> WithColumn(m2, "total_medals", medal_columns_sum(m2)),
         medals_detail |-> d4]

\* pd.to_datetime(df[col])
column_to_datetime(df, col) == [i \in 1..nrows(df) |-> to_datetime(df.rows[i][col])]

\* pages/4_Daily_Highlights.py lines 37-46: the two date columns are converted
\* in the tables the page got from load_all_data
Daily_Highlights_dates(data) ==
    [data EXCEPT
        !.schedule = WithColumn(@, "day", column_to_datetime(@, "day")),
        !.medals   = WithColumn(@, "medal_date", column_to_datetime(@, "medal_date"))]

\* One run of a page script to its end, in the world w with the session's
\* widget values wd.  loaded: the tables as load_all_data returned them; data:
\* the same tables when the run ends.  d is what the page's first call, of
\* get_data or of load_all_data, returned; sb what the sidebar returned.
Script(pg, wd, w) ==
    LET charts(data, filters) ==
            IF pg = "Overview" THEN Overview_body(data, filters)
            ELSE IF pg = "Global_Analysis" THEN Global_Analysis_body(data, filters)
            ELSE <<>>
        body(data, sb) ==
            [loaded |-> data, data |-> data,
             filters |-> sb.filters, options |-> sb.options,
             summary |-> get_filter_summary(sb.filters)]
            @@ charts(data, sb.filters)
        sidebar_page(d) ==
            [w   |-> d.w,
             out |-> body(d.ret, create_sidebar_filters(d.ret, wd, FALSE))]
        plain_page(d) ==
            [w   |-> d.w,
             out |-> [loaded |-> d.ret,
                      data   |-> IF pg = "Daily_Highlights"
                                 THEN Daily_Highlights_dates(d.ret) ELSE d.ret]]
    IN  IF pg \in SidebarPages
        THEN sidebar_page(get_data(w))
        ELSE plain_page(load_all_data(w))

\* What Streamlit does on an event.  A run in which the sidebar calls
\* st.rerun() stops there, after get_data and before the page's body, and
\* Streamlit runs the script again: the session's widget values are the same
\* in both runs, the button is not clicked in the second.
Run(pg, wd, w, clicked) ==
    LET stopped(d) ==
            IF create_sidebar_filters(d.ret, wd, clicked).rerun THEN d.w ELSE w
    IN  Script(pg, wd, IF pg \in SidebarPages THEN stopped(get_data(w)) ELSE w)

-----------------------------------------------------------------------------
(* The dashboard: one server process, one browser session *)

NoCall == [fn |-> "none"]

World == [cache |-> cache, reads |-> reads]

\* no file has been read MaxReads times
CanRun == \A f \in Files : reads[f] < MaxReads

\* the state a script run leaves
Rendered(pg, wd, event, clicked) ==
    LET leaves(r) ==
            /\ page' = pg
            /\ widgets' = wd
            /\ lastEvent' = event
            /\ cache' = r.w.cache
            /\ reads' = r.w.reads
            /\ out' = r.out
            /\ UNCHANGED <<disk, fcall>>
    IN  leaves(Run(pg, wd, World, clicked))

Init ==
    /\ disk \in {Disk(m) : m \in MedalsTotalFiles}
    /\ cache = <<>>
    /\ reads = [f \in Files |-> 0]
    /\ page = "none"
    /\ widgets = DefaultWidgets
    /\ lastEvent = "start"
    /\ out = <<>>
    /\ fcall = NoCall

\* the number of widget settings that differ from the defaults
Changes(wd) ==
    Len(wd.countries) + Len(wd.continents) + Len(wd.sports)
    + Cardinality({b \in {"gold", "silver", "bronze"} : ~wd[b]})

\* the user opens a page, from another page or in a new browser session on the
\* same server: the page's widgets start from their defaults
Open(pg) ==
    /\ CanRun
    /\ Rendered(pg, DefaultWidgets, "open", FALSE)

\* the user adds a value to one of the three multiselects
Select(kind, v) ==
    /\ CanRun
    /\ page \in SidebarPages
    /\ v \in Range(out.options[kind]) \ Range(widgets[kind])
    /\ Changes(widgets) < MaxChanges
    /\ Rendered(page, [widgets EXCEPT ![kind] = Append(@, v)], "change", FALSE)

\* the user removes a value from one of the three multiselects
Deselect(kind, v) ==
    /\ CanRun
    /\ page \in SidebarPages
    /\ v \in Range(widgets[kind])
    /\ Rendered(page, [widgets EXCEPT ![kind] = SelectSeq(@, LAMBDA x : x # v)],
                "change", FALSE)

\* the user checks or unchecks one of the three medal checkboxes
Toggle(box) ==
    /\ CanRun
    /\ page \in SidebarPages
    /\ widgets[box] => Changes(widgets) < MaxChanges
    /\ Rendered(page, [widgets EXCEPT ![box] = ~@], "change", FALSE)

\* the user clicks 'Clear All Filters'
ClickClear ==
    /\ CanRun
    /\ page \in SidebarPages
    /\ Rendered(page, widgets, "clear", TRUE)

Next ==
    \/ \E pg \in Pages : Open(pg)
    \/ \E kind \in {"countries", "continents", "sports"}, v \in Range(AlphaOrder) :
          Select(kind, v)
    \/ \E kind \in {"countries", "continents", "sports"}, v \in Range(AlphaOrder) :
          Deselect(kind, v)
    \/ \E box \in {"gold", "silver", "bronze"} : Toggle(box)
    \/ ClickClear

Spec == Init /\ [][Next]_vars

-----------------------------------------------------------------------------
(* Calls of the utility functions on their own *)

\* the columns apply_filters looks at, and one that it does not
FilterColumns == {"country_code", "code", "sport", "medal_type", "continent"}

\* rows a table handed to apply_filters is made of; the third has no medal
\* type, the fourth comes from a left join that found no NOC
RowPool ==
    { [name |-> "r1", country_code |-> "FRA", code |-> "FRA", sport |-> "Judo",
       medal_type |-> GOLD, continent |-> "Europe"],
      [name |-> "r2", country_code |-> "USA", code |-> "USA", sport |-> "Golf",
       medal_type |-> SILVER, continent |-> "North America"],
      [name |-> "r3", country_code |-> "EOR", code |-> "EOR", sport |-> "Judo",
       medal_type |-> NaN, continent |-> "Other"],
      [name |-> "r4", country_code |-> "AIN", code |-> NaN, sport |-> "Golf",
       medal_type |-> BRONZE, continent |-> NaN] }

\* the column sets of the tables: medals, enriched nocs, events, a joined
\* table with all the columns, and a table with none of them
Schemas ==
    { {"name", "country_code", "medal_type"},
      {"name", "code", "continent"},
      {"name", "sport"},
      {"name"} \cup FilterColumns,
      {"name"} }

SeqsUpTo(S, n) == UNION {[1..k -> S] : k \in 0..n}

Tables ==
    { Frame(cols, [i \in 1..Len(rws) |-> [c \in cols |-> rws[i][c]]]) :
        cols \in Schemas, rws \in SeqsUpTo(RowPool, MaxRows) }

FilterKeys == {"countries", "sports", "medal_types", "continents"}

\* the selections a key of the filters dictionary can hold
Selections(key) ==
    CASE key = "countries"   -> {<<>>, <<"FRA">>, <<"USA", "FRA">>}
      [] key = "sports"      -> {<<>>, <<"Judo">>}
      [] key = "medal_types" -> {<<>>, <<GOLD>>, <<BRONZE, GOLD>>, medal_types}
      [] key = "continents"  -> {<<>>, <<"Europe">>}

\* the filters dictionaries: any of the keys may be absent
FilterDicts ==
    UNION { {f \in [keys -> UNION {Selections(k) : k \in keys}] :
                \A k \in keys : f[k] \in Selections(k)} : keys \in SUBSET FilterKeys }

\* the caller's table and dictionary after a call data.drop(..., inplace=True)
\* would leave
apply_filters_inplace(data, filters) ==
    [ret |-> apply_filters(data, filters), data |-> apply_filters(data, filters),
     filters |-> filters]

\* A call of apply_filters as its caller sees it: the returned frame, and the
\* caller's table and dictionary after the call.  The function works on
\* data.copy() and rebinds its local df; it only reads filters.
apply_filters_call(data, filters) ==
    [ret |-> apply_filters(data, filters), data |-> data, filters |-> filters]

AppIdle ==
    /\ disk = Disk(CHOOSE m \in MedalsTotalFiles : nrows(m) = 2)
    /\ cache = <<>>
    /\ reads = [f \in Files |-> 0]
    /\ page = "none"
    /\ widgets = DefaultWidgets
    /\ lastEvent = "start"
    /\ out = <<>>

appvars == <<disk, cache, reads, page, widgets, lastEvent, out>>

InitFilter ==
    /\ AppIdle
    /\ fcall \in {[fn |-> "apply_filters", pc |-> "call", data |-> t, filters |-> f,
                   ret |-> EmptyFrame({}), data_after |-> t, filters_after |-> f] :
                  t \in Tables, f \in FilterDicts}

\* apply_filters(data, filters) is called and returns
CallApplyFilters ==
    /\ fcall.fn = "apply_filters"
    /\ fcall.pc = "call"
    /\ LET r == apply_filters_call(fcall.data, fcall.filters)
       IN  fcall' = [fcall EXCEPT !.pc = "done", !.ret = r.ret,
                                  !.data_after = r.data, !.filters_after = r.filters]
    /\ UNCHANGED appvars

NextFilter == CallApplyFilters

SpecFilter == InitFilter /\ [][NextFilter]_vars

\* the selections of a key get_filter_summary is called with: what the sidebar
\* can return, the medal types in the order of the checkboxes
SummarySelections(key) ==
    CASE key = "countries"   -> {<<>>, <<"FRA">>, <<"USA", "FRA">>, <<"EOR", "FRA", "USA">>}
      [] key = "sports"      -> {<<>>, <<"Judo">>, <<"Judo", "Golf">>}
      [] key = "continents"  -> {<<>>, <<"Europe">>, <<"Other", "Europe">>}
      [] key = "medal_types" ->
            {SelectSeq(medal_types, LAMBDA m : m \in S) : S \in SUBSET Range(medal_types)}

SummaryDicts ==
    UNION { {f \in [keys -> UNION {SummarySelections(k) : k \in keys}] :
                \A k \in keys : f[k] \in SummarySelections(k)} : keys \in SUBSET FilterKeys }

InitSummary ==
    /\ AppIdle
    /\ fcall \in {[fn |-> "get_filter_summary", pc |-> "call", filters |-> f, ret |-> ""] :
                  f \in SummaryDicts}

\* get_filter_summary(filters) is called and returns
CallSummary ==
    /\ fcall.fn = "get_filter_summary"
    /\ fcall.pc = "call"
    /\ fcall' = [fcall EXCEPT !.pc = "done", !.ret = get_filter_summary(fcall.filters)]
    /\ UNCHANGED appvars

NextSummary == CallSummary

SpecSummary == InitSummary /\ [][NextSummary]_vars

-----------------------------------------------------------------------------
(* pages/3_Athlete_Performance.py: the athletes of the age charts *)

\* a cell of a CSV column of texts: the text, or the float NaN pd.read_csv
\* puts for an empty field
Text(v) == [dtype |-> "object", value |-> v]
FloatNaN == [dtype |-> "float64", value |-> <<>>]
Float(x) == [dtype |-> "float64", value |-> <<x>>]
NaT == [dtype |-> "datetime64[ns]", value |-> <<>>]

\* pd.notna of a cell
notna(cell) == cell.dtype = "object" \/ cell.value # <<>>

\* a date text parses when its numbers are a month and a day
IsDate(v) == v[2] \in 1..12 /\ v[3] \in 1..31

\* a conversion that puts the first day of the epoch where the text is no date
to_datetime_coerce_epoch(cell) ==
    IF notna(cell) /\ cell.dtype = "object" /\ IsDate(cell.value)
    THEN Timestamp(Midnight(cell.value)) ELSE Timestamp(Midnight(<<1970, 1, 1>>))

\* pd.to_datetime(cell, errors='coerce')
to_datetime_coerce(cell) ==
    IF notna(cell) /\ cell.dtype = "object" /\ IsDate(cell.value)
    THEN Timestamp(Midnight(cell.value)) ELSE NaT

\* 2024 - Series.dt.year of one cell: NaN for NaT
age_of(ts) == IF ts = NaT THEN FloatNaN ELSE Float(2024 - ts.value[1])

\* The text of a disciplines cell: a Python list literal such as
\* "['Judo', 'Golf']" (literal TRUE) or names separated by commas such as
\* "Judo, Golf" (literal FALSE), with the names it holds.
Disciplines(literal, items) == Text([literal |-> literal, items |-> items])

\* parse_disciplines(x): ast.literal_eval of a list literal, the split at
\* the commas of another text, [] for a missing cell
parse_disciplines(x) ==
    IF notna(x) THEN x.value.items ELSE <<>>

\* DataFrame.explode(col) then rename(columns={col: new}): one row per
\* element of the row's list, with the row's index label; one row with NaN
\* for an empty list
explode(df, col, new) ==
    LET cols == (df.columns \ {col}) \cup {new}
        item(r, v) == [c \in cols |-> IF c = new THEN v ELSE r[c]]
        expand(i) ==
            LET r == df.rows[i]
            IN  IF r[col] = <<>>
                THEN << [label |-> df.index[i], row |-> item(r, NaN)] >>
                ELSE [k \in 1..Len(r[col]) |->
                         [label |-> df.index[i], row |-> item(r, r[col][k])]]
    IN  Unlabelled(cols, Flatten([i \in 1..nrows(df) |-> expand(i)]))

AthleteColumns == {"name", "country_code", "gender", "birth_date", "disciplines"}

AthleteRow(n, c, g, b, d) ==
    [name |-> n, country_code |-> c, gender |-> g, birth_date |-> b, disciplines |-> d]

\* athletes of athletes.csv: two disciplines, one and the age 80, a missing
\* birth date with disciplines separated by commas, a child of 9 without
\* disciplines, a birth date that is no date, the age 81, the age 10
AthletePool ==
    { AthleteRow("A", "FRA", "Male", Text(<<2000, 5, 17>>),
                 Disciplines(TRUE, <<"Judo", "Golf">>)),
      AthleteRow("B", "USA", "Female", Text(<<1944, 1, 1>>),
                 Disciplines(TRUE, <<"Judo">>)),
      AthleteRow("C", "EOR", "Male", FloatNaN,
                 Disciplines(FALSE, <<"Golf", "Judo">>)),
      AthleteRow("D", "USA", "Female", Text(<<2015, 2, 2>>), FloatNaN),
      AthleteRow("E", "FRA", "Female", Text(<<1999, 13, 1>>),
                 Disciplines(TRUE, <<"Golf">>)),
      AthleteRow("F", "USA", "Male", Text(<<1943, 12, 31>>),
                 Disciplines(TRUE, <<"Golf">>)),
      AthleteRow("G", "FRA", "Female", Text(<<2014, 12, 31>>),
                 Disciplines(TRUE, <<"Judo">>)) }

\* the age section of the page, lines 72-82 and 194-243: filters is what the
\* sidebar returned, age_view the value of the radio.  charts: the age charts
\* are drawn; fed: the rows they are drawn from (lines 250-312).
Athlete_Performance_ages(data, filters, age_view) ==
    LET merged(a) ==
            merge_left(a, Project(data.nocs, {"code", "country", "continent"}),
                       "country_code", "code")
        by_country(a) ==
            IF filters.countries # <<>>
            THEN keep_isin(a, "country_code", filters.countries) ELSE a
        by_continent(a) ==
            IF filters.continents # <<>>
            THEN keep_isin(a, "continent", filters.continents) ELSE a
        with_dates(a) ==
            WithColumn(a, "birth_date",
                       [i \in 1..nrows(a) |-> to_datetime_coerce(a.rows[i]["birth_date"])])
        with_age(a) ==
            WithColumn(a, "age", [i \in 1..nrows(a) |-> age_of(a.rows[i]["birth_date"])])
        age_present(a) ==
            BoolIndex(a, [i \in 1..nrows(a) |-> notna(a.rows[i]["age"])])
        age_plausible(a) ==
            BoolIndex(a, [i \in 1..nrows(a) |->
                             a.rows[i]["age"].value[1] >= 10 /\ a.rows[i]["age"].value[1] <= 80])
        with_sport_list(a) ==
            WithColumn(a, "sport_list",
                       [i \in 1..nrows(a) |-> parse_disciplines(a.rows[i]["disciplines"])])
        with_sport(a) ==
            keep_isin(explode(with_sport_list(copy(a)), "sport_list", "sport"),
                      "sport", filters.sports)
        result(df, filtered, analysis) ==
            IF "birth_date" \in filtered.columns
            THEN [athletes_df |-> df, athletes_analysis |-> analysis, charts |-> TRUE,
                  fed |-> IF age_view = "Sport" /\ filters.sports # <<>>
                          THEN with_sport(analysis) ELSE analysis]
            ELSE [athletes_df |-> df, athletes_analysis |-> filtered, charts |-> FALSE,
                  fed |-> EmptyFrame({})]
        ages(df, filtered) ==
            result(df, filtered,
                   IF "birth_date" \in filtered.columns
                   THEN age_plausible(age_present(with_age(with_dates(filtered))))
                   ELSE filtered)
        page_of(df) == ages(df, by_continent(by_country(copy(df))))
    IN  page_of(merged(copy(data.athletes)))

\* df.groupby(keys).size().reset_index(name=name) for one or two keys: one
\* row per group of equal keys, in the order of the keys, with the number of
\* its rows; a row with a missing key is in no group
groupby_size(df, keys, name) ==
    LET present(k) == unique(df, k) \ {NaN}
        firsts == sorted(present(keys[1]))
        seconds(v) ==
            sorted({df.rows[i][keys[2]] :
                       i \in {j \in 1..nrows(df) : df.rows[j][keys[1]] = v}} \ {NaN})
        groups ==
            IF Len(keys) = 1 THEN [k \in 1..Len(firsts) |-> <<firsts[k]>>]
            ELSE Flatten([k \in 1..Len(firsts) |->
                             [j \in 1..Len(seconds(firsts[k])) |->
                                 <<firsts[k], seconds(firsts[k])[j]>>]])
        size(g) ==
            Cardinality({i \in 1..nrows(df) :
                            \A n \in 1..Len(keys) : df.rows[i][keys[n]] = g[n]})
        cols == Range(keys) \cup {name}
        key_of(c) == CHOOSE n \in 1..Len(keys) : keys[n] = c
    IN  Frame(cols, [k \in 1..Len(groups) |->
                       [c \in cols |-> IF c = name THEN size(groups[k])
                                       ELSE groups[k][key_of(c)]]])

\* line 371: the countries of the gender chart by country
TopCountries == 20

\* the gender section of the page, lines 326-387: gender_view is the value of
\* the selectbox.  gender_data is the table of line 332, chart the table the
\* chart of the view is drawn from.
Athlete_Performance_gender(athletes_analysis, gender_view) ==
    LET gender_country == groupby_size(athletes_analysis, <<"country", "gender">>, "count")
        countries == sorted(unique(gender_country, "country"))
        of_country(v) == SelectSeq(gender_country.rows, LAMBDA r : r["country"] = v)
        country_sums ==
            Frame({"country", "count"},
                  [k \in 1..Len(countries) |->
                      [country |-> countries[k],
                       count   |-> SumSeq([j \in 1..Len(of_country(countries[k])) |->
                                             of_country(countries[k])[j]["count"]])]])
        top_20 == unique(nlargest(country_sums, TopCountries, "count"), "country")
        world(gender_data) ==
            [gender_data |-> gender_data,
             chart |-> IF gender_view = "World" THEN gender_data
                       ELSE IF gender_view = "By Continent"
                       THEN groupby_size(athletes_analysis, <<"continent", "gender">>, "count")
                       ELSE BoolIndex(gender_country,
                                      [i \in 1..nrows(gender_country) |->
                                          gender_country.rows[i]["country"] \in top_20])]
    IN  world(groupby_size(athletes_analysis, <<"gender">>, "count"))

\* the athlete statistics of the page, lines 479-491: the metrics of the first
\* two columns.  Series.mean() is the sum of the ages over their number, kept
\* as the two numbers; without an age column avg_age is 0 and the metric shows
\* "N/A", the 0 being 0 over 1; an empty table shows no Average Age.
Athlete_Performance_statistics(athletes_analysis) ==
    LET ages == [i \in 1..nrows(athletes_analysis) |->
                    athletes_analysis.rows[i]["age"].value[1]]
        count(labels) == nrows(keep_isin(athletes_analysis, "gender", labels))
    IN  [average_age |->
             IF nrows(athletes_analysis) = 0 THEN <<>>
             ELSE IF "age" \in athletes_analysis.columns
             THEN << [sum |-> SumSeq(ages), count |-> Len(ages)] >>
             ELSE << [sum |-> 0, count |-> 1] >>,
         male_count   |-> count(<<"Male", "M">>),
         female_count |-> count(<<"Female", "F">>)]

\* the three views of the gender selectbox, lines 326-329
GenderViews == {"World", "By Continent", "By Country (Top 20)"}

\* the athletes tables of the age section: with and without a birth_date column
AthleteTables ==
    { Frame(cols, [i \in 1..Len(rws) |-> [c \in cols |-> rws[i][c]]]) :
        cols \in {AthleteColumns, AthleteColumns \ {"birth_date"}},
        rws \in SeqsUpTo(AthletePool, MaxRows) }

\* the dictionaries the sidebar returns to the page
AgeFilters ==
    [countries   : {<<>>, <<"FRA">>, <<"USA", "FRA">>},
     continents  : {<<>>, <<"Europe">>},
     sports      : {<<>>, <<"Judo">>, <<"Judo", "Golf">>},
     medal_types : {medal_types}]

InitAges ==
    /\ AppIdle
    /\ fcall \in {[fn |-> "Athlete_Performance", pc |-> "call",
                   data |-> [athletes |-> t, nocs |-> enrich_nocs(NocsCsv, continent_map)],
                   filters |-> f, age_view |-> v, gender_view |-> g,
                   ret |-> <<>>, gender |-> <<>>, statistics |-> <<>>] :
                  t \in AthleteTables, f \in AgeFilters, v \in {"Sport", "Gender"},
                  g \in GenderViews}

\* the Athlete Performance page runs: the age section, then the gender
\* section and the statistics on the athletes the age section left
RenderAges ==
    LET shown(ages) ==
            [fcall EXCEPT !.pc = "done",
                          !.ret = ages,
                          !.gender = Athlete_Performance_gender(ages.athletes_analysis,
                                                                fcall.gender_view),
                          !.statistics =
                              Athlete_Performance_statistics(ages.athletes_analysis)]
    IN  /\ fcall.fn = "Athlete_Performance"
        /\ fcall.pc = "call"
        /\ fcall' = shown(Athlete_Performance_ages(fcall.data, fcall.filters,
                                                   fcall.age_view))
        /\ UNCHANGED appvars

NextAges == RenderAges

SpecAges == InitAges /\ [][NextAges]_vars

-----------------------------------------------------------------------------
(* pages/2_Global_Analysis.py: the medals by continent *)

\* df.groupby(key).agg({c: 'sum' for c in cols}).reset_index(): one row per
\* value of key in sorted order, rows with a missing key left out
groupby_sum(df, key, cols) ==
    LET keys == sorted(unique(df, key) \ {NaN})
        members(v) == SelectSeq(df.rows, LAMBDA r : r[key] = v)
        total(v, c) == SumSeq([i \in 1..Len(members(v)) |-> members(v)[i][c]])
    IN  Frame({key} \cup cols,
              [k \in 1..Len(keys) |->
                  [c \in {key} \cup cols |->
                      IF c = key THEN keys[k] ELSE total(keys[k], c)]])

\* lines 227-231
continent_medals(medals_df) ==
    groupby_sum(medals_df, "continent", {GOLD, SILVER, BRONZE})

\* lines 339: len(continent_medals[continent_medals['Gold Medal'] > 0])
total_continents(medals_df) ==
    LET go(cm) == nrows(BoolIndex(cm, [i \in 1..nrows(cm) |-> cm.rows[i][GOLD] > 0]))
    IN  go(continent_medals(medals_df))

\* a nocs.csv with a NOC of every continent of continent_map and the neutral
\* athletes, who are in no continent
WorldNocsCsv ==
    Frame({"code", "country"},
          << NocsRow("AIN", "AIN"), NocsRow("AUS", "Australia"),
             NocsRow("BRA", "Brazil"), NocsRow("FRA", "France"),
             NocsRow("JPN", "Japan"), NocsRow("KEN", "Kenya"),
             NocsRow("USA", "United States") >>)

\* the medals_total.csv files over these NOCs: any of them may have a row,
\* with a gold medal or without
WorldMedalsTotal ==
    { LET codes == SelectSeq(AlphaOrder, LAMBDA c : c \in DOMAIN g)
      IN  Frame(MedalsTotalColumns,
                [i \in 1..Len(codes) |-> MedalsTotalRow(codes[i], codes[i], g[codes[i]], 1, 0)])
      : g \in UNION {[S -> {0, 1}] : S \in SUBSET unique(WorldNocsCsv, "code")} }

ContinentFilters ==
    [countries   : {<<>>, <<"FRA", "AIN">>},
     continents  : {<<>>, <<"Europe", "Other">>},
     sports      : {<<>>},
     medal_types : {medal_types}]

InitContinents ==
    /\ AppIdle
    /\ fcall \in {[fn |-> "Global_Analysis", pc |-> "call",
                   data |-> [medals_total |-> t, medals |-> MedalsCsv,
                             nocs |-> enrich_nocs(WorldNocsCsv, continent_map)],
                   filters |-> f, medals_df |-> EmptyFrame({}), total_continents |-> 0] :
                  t \in WorldMedalsTotal, f \in ContinentFilters}

\* the Global Analysis page computes its medals by continent
RenderContinents ==
    /\ fcall.fn = "Global_Analysis"
    /\ fcall.pc = "call"
    /\ LET done(medals_df) ==
               fcall' = [fcall EXCEPT !.pc = "done", !.medals_df = medals_df,
                                      !.total_continents = total_continents(medals_df)]
       IN  done(Global_Analysis_body(fcall.data, fcall.filters).medals_df)
    /\ UNCHANGED appvars

NextContinents == RenderContinents

SpecContinents == InitContinents /\ [][NextContinents]_vars

-----------------------------------------------------------------------------
(* pages/3_Head_to_Head.py *)

\* df[df[col] == value]
keep_eq(df, col, value) ==
    BoolIndex(df, [i \in 1..nrows(df) |-> df.rows[i][col] = value])

\* get_medal_counts(df), lines 95-111
get_medal_counts(df) ==
    IF nrows(df) = 0
    THEN [Gold |-> 0, Silver |-> 0, Bronze |-> 0, Total |-> 0]
    ELSE [Gold   |-> df.rows[1][GOLD],
          Silver |-> df.rows[1][SILVER],
          Bronze |-> df.rows[1][BRONZE],
          Total  |-> IF "Total" \in df.columns
                     THEN df.rows[1]["Total"]
                     ELSE df.rows[1][GOLD] + df.rows[1][SILVER] + df.rows[1][BRONZE]]

\* the distinct values of a column in the order of their first row
RECURSIVE FirstSeen(_, _)
FirstSeen(rws, col) ==
    IF rws = <<>> THEN <<>>
    ELSE LET rest == FirstSeen(SubSeq(rws, 1, Len(rws) - 1), col)
             v == rws[Len(rws)][col]
         IN  IF v \in Range(rest) THEN rest ELSE Append(rest, v)

\* Series.value_counts().reset_index() with the columns renamed: one row per
\* value that is not missing, the most frequent first, equal counts in the
\* order of their first row
value_counts(df, col, names) ==
    LET vals == SelectSeq(FirstSeen(df.rows, col), LAMBDA v : v # NaN)
        count(v) == Cardinality({i \in 1..nrows(df) : df.rows[i][col] = v})
        counted == Frame({names[1], names[2]},
                         [k \in 1..Len(vals) |->
                             (names[1] :> vals[k]) @@ (names[2] :> count(vals[k]))])
    IN  nlargest(counted, Len(vals), names[2])

\* DataFrame.head(n)
head(df, n) ==
    LET m == IF nrows(df) < n THEN nrows(df) ELSE n
    IN  [columns |-> df.columns, index |-> SubSeq(df.index, 1, m),
         rows |-> SubSeq(df.rows, 1, m)]

\* get_top_sports(country_code), lines 124-140
get_top_sports(medals, country_code) ==
    LET top(country_medals) ==
            IF nrows(country_medals) = 0 THEN EmptyFrame({})
            ELSE head(value_counts(country_medals, "discipline", <<"Discipline", "Medals">>), 5)
    IN  top(keep_eq(medals, "country_code", country_code))

\* without the column every athlete is counted
num_athletes_all_rows(athletes, country) ==
    IF "country_code" \in athletes.columns
    THEN nrows(keep_eq(athletes, "country_code", country))
    ELSE nrows(athletes)

\* lines 120-121
num_athletes(athletes, country) ==
    IF "country_code" \in athletes.columns
    THEN nrows(keep_eq(athletes, "country_code", country))
    ELSE 0

\* lines 61-76: the options of the two select boxes and their defaults
available_countries(medals_total) == sorted(unique(medals_total, "country_code"))
default_index_b(options) == IF Len(options) > 1 THEN 1 ELSE 0

Warning == "Please select two different countries to compare."

\* st.metric(label, value, delta=...) and the other elements the page shows
metric(label, value) == [st |-> "metric", label |-> label, value |-> value]
metric_delta(label, value, delta) ==
    [st |-> "metric", label |-> label, value |-> value, delta |-> delta]

\* lines 212-227: a country's top sports
top_sports_elements(country, top_sports) ==
    << [st |-> "markdown", body |-> "**" \o country \o " Top Sports**"],
       IF nrows(top_sports) > 0
       THEN [st |-> "dataframe", data |-> top_sports]
       ELSE [st |-> "write", body |-> "No medals found."] >>

\* lines 86-227: the comparison of two countries
comparison(data, country_a, country_b) ==
    LET comparison_data(counts_a, counts_b) ==
            << [Country |-> country_a, Medal_Type |-> "Gold",   Count |-> counts_a.Gold],
               [Country |-> country_a, Medal_Type |-> "Silver", Count |-> counts_a.Silver],
               [Country |-> country_a, Medal_Type |-> "Bronze", Count |-> counts_a.Bronze],
               [Country |-> country_b, Medal_Type |-> "Gold",   Count |-> counts_b.Gold],
               [Country |-> country_b, Medal_Type |-> "Silver", Count |-> counts_b.Silver],
               [Country |-> country_b, Medal_Type |-> "Bronze", Count |-> counts_b.Bronze] >>
        shown(counts_a, counts_b, n_a, n_b) ==
            << [st |-> "subheader", body |-> "Overall Performance"],
               metric(country_a \o " Total Medals", counts_a.Total),
               metric_delta(country_b \o " Total Medals", counts_b.Total,
                            counts_b.Total - counts_a.Total),
               metric(country_a \o " Gold", counts_a.Gold),
               metric_delta(country_b \o " Gold", counts_b.Gold,
                            counts_b.Gold - counts_a.Gold),
               metric(country_a \o " Athletes", n_a),
               metric_delta(country_b \o " Athletes", n_b, n_b - n_a),
               [st |-> "subheader", body |-> "Medal Breakdown"],
               [st |-> "plotly_chart", data |-> comparison_data(counts_a, counts_b)],
               [st |-> "subheader", body |-> "Top Sports"] >>
            \o top_sports_elements(country_a, get_top_sports(data.medals, country_a))
            \o top_sports_elements(country_b, get_top_sports(data.medals, country_b))
    IN  shown(get_medal_counts(keep_eq(data.medals_total, "country_code", country_a)),
              get_medal_counts(keep_eq(data.medals_total, "country_code", country_b)),
              num_athletes(data.athletes, country_a),
              num_athletes(data.athletes, country_b))

\* the warning does not keep the comparison from being shown
Head_to_Head_body_no_else(data, country_a, country_b) ==
    (IF country_a = country_b THEN << [st |-> "warning", body |-> Warning] >> ELSE <<>>)
    \o comparison(data, country_a, country_b)

\* lines 83-227: the elements the page shows under the two select boxes, in
\* their order
Head_to_Head_body(data, country_a, country_b) ==
    IF country_a = country_b
    THEN << [st |-> "warning", body |-> Warning] >>
    ELSE comparison(data, country_a, country_b)

\* medals_total.csv rows: gold, silver, bronze and the Total column of the
\* file, which for JPN is not their sum
H2HPool ==
    { MedalsTotalRow("USA", "United States", 2, 1, 1) @@ ("Total" :> 4),
      MedalsTotalRow("FRA", "France", 1, 2, 0) @@ ("Total" :> 3),
      MedalsTotalRow("EOR", "Refugee Olympic Team", 0, 0, 1) @@ ("Total" :> 1),
      MedalsTotalRow("JPN", "Japan", 1, 1, 1) @@ ("Total" :> 5) }

\* the medals_total.csv files: some of these rows, with or without the Total
\* column
H2HMedalsTotal ==
    { LET codes == SelectSeq(AlphaOrder, LAMBDA c : \E r \in S : r["country_code"] = c)
          row(c) == CHOOSE r \in S : r["country_code"] = c
      IN  Frame(cols, [i \in 1..Len(codes) |-> [c \in cols |-> row(codes[i])[c]]])
      : S \in (SUBSET H2HPool) \ {{}},
        cols \in {MedalsTotalColumns, MedalsTotalColumns \cup {"Total"}} }

\* athletes.csv with and without the country_code column
H2HAthletes == {AthletesCsv, Project(AthletesCsv, {"name"})}

\* the codes get_medal_counts is tried with: of rows of the pool and of none
H2HCodes == {"USA", "FRA", "EOR", "JPN", "KEN"}

InitH2H ==
    /\ AppIdle
    /\ fcall \in
          {[fn |-> "Head_to_Head", pc |-> "call",
            data |-> [medals_total |-> t, athletes |-> a, medals |-> MedalsCsv],
            country_a |-> c[1], country_b |-> c[2], default |-> FALSE, shown |-> <<>>] :
           t \in H2HMedalsTotal, a \in H2HAthletes, c \in H2HCodes \X H2HCodes}
          \cup
          {[fn |-> "get_medal_counts", pc |-> "call",
            df |-> keep_eq(t, "country_code", c), ret |-> <<>>] :
           t \in H2HMedalsTotal, c \in H2HCodes}
    /\ fcall.fn = "Head_to_Head" =>
          {fcall.country_a, fcall.country_b}
              \subseteq Range(available_countries(fcall.data.medals_total))

\* the page runs with the two select boxes at the values the user chose
RenderH2H ==
    /\ fcall.fn = "Head_to_Head"
    /\ fcall.pc = "call"
    /\ fcall' = [fcall EXCEPT !.pc = "done",
                              !.shown = Head_to_Head_body(fcall.data, fcall.country_a,
                                                          fcall.country_b)]
    /\ UNCHANGED appvars

\* the page runs for the first time: the select boxes have their defaults
RenderH2HDefault ==
    /\ fcall.fn = "Head_to_Head"
    /\ fcall.pc = "call"
    /\ LET first(options) ==
               fcall' = [fcall EXCEPT
                            !.pc = "done", !.default = TRUE,
                            !.country_a = options[1],
                            !.country_b = options[default_index_b(options) + 1],
                            !.shown = Head_to_Head_body(fcall.data, options[1],
                                          options[default_index_b(options) + 1])]
       IN  first(available_countries(fcall.data.medals_total))
    /\ UNCHANGED appvars

\* get_medal_counts(df) is called and returns
CallGetMedalCounts ==
    /\ fcall.fn = "get_medal_counts"
    /\ fcall.pc = "call"
    /\ fcall' = [fcall EXCEPT !.pc = "done", !.ret = get_medal_counts(fcall.df)]
    /\ UNCHANGED appvars

NextH2H == RenderH2H \/ RenderH2HDefault \/ CallGetMedalCounts

SpecH2H == InitH2H /\ [][NextH2H]_vars

-----------------------------------------------------------------------------
(* utils/ioc_iso_mapping.py *)

\* the entries of IOC_TO_ISO for the codes of the model
IOC_TO_ISO ==
    [c \in {"GER", "SUI", "NED", "KOS", "USA", "FRA", "EOR", "ROC"} |->
        CASE c = "GER" -> "DEU"
          [] c = "SUI" -> "CHE"
          [] c = "NED" -> "NLD"
          [] c = "KOS" -> "XKX"
          [] c = "USA" -> "USA"
          [] c = "FRA" -> "FRA"
          [] c = "EOR" -> "EOR"
          [] c = "ROC" -> "RUS"]

\* IOC_TO_ISO.get(ioc_code): None for a code that is no key
get_iso_code_no_default(ioc_code) ==
    IF ioc_code \in DOMAIN IOC_TO_ISO THEN IOC_TO_ISO[ioc_code] ELSE NaN

\* IOC_TO_ISO.get(ioc_code, ioc_code)
get_iso_code(ioc_code) ==
    IF ioc_code \in DOMAIN IOC_TO_ISO THEN IOC_TO_ISO[ioc_code] ELSE ioc_code

\* the country_code cells get_iso_code is applied to: keys of the table, codes
\* that are no keys, and a missing cell
IocCells == DOMAIN IOC_TO_ISO \cup {"LIB", "XXX", NaN}

\* pages/2_Global_Analysis.py:102, medals_df['country_code'].apply(get_iso_code)
InitIso ==
    /\ AppIdle
    /\ fcall \in {[fn |-> "get_iso_code", pc |-> "call", country_code |-> col, iso_code |-> <<>>] :
                  col \in SeqsUpTo(IocCells, MaxRows)}

ApplyGetIsoCode ==
    /\ fcall.fn = "get_iso_code"
    /\ fcall.pc = "call"
    /\ fcall' = [fcall EXCEPT
                    !.pc = "done",
                    !.iso_code = [i \in 1..Len(fcall.country_code) |->
                                     get_iso_code(fcall.country_code[i])]]
    /\ UNCHANGED appvars

NextIso == ApplyGetIsoCode

SpecIso == InitIso /\ [][NextIso]_vars

-----------------------------------------------------------------------------
(* 1_Overview.py: the Top 10 chart on tables of more than ten countries *)

\* twelve countries in the order of the file, some with equal totals
StandingsPool ==
    << MedalsTotalRow("C01", "C01", 2, 2, 1), MedalsTotalRow("C02", "C02", 1, 1, 1),
       MedalsTotalRow("C03", "C03", 0, 3, 0), MedalsTotalRow("C04", "C04", 0, 0, 0),
       MedalsTotalRow("C05", "C05", 4, 2, 1), MedalsTotalRow("C06", "C06", 0, 0, 1),
       MedalsTotalRow("C07", "C07", 1, 0, 0), MedalsTotalRow("C08", "C08", 1, 1, 0),
       MedalsTotalRow("C09", "C09", 3, 3, 3), MedalsTotalRow("C10", "C10", 2, 1, 1),
       MedalsTotalRow("C11", "C11", 0, 2, 2), MedalsTotalRow("C12", "C12", 3, 2, 1) >>

\* the filtered medals tables: the rows the filters left of the twelve, with
\* the index labels they have in the file
StandingsTables ==
    { BoolIndex(Frame(MedalsTotalColumns, StandingsPool),
                [i \in 1..Len(StandingsPool) |-> i \in S])
      : S \in SUBSET (1..Len(StandingsPool)) }

InitStandings ==
    /\ AppIdle
    /\ fcall \in {[fn |-> "top_countries", pc |-> "call", filtered_medals |-> t,
                   top_countries |-> EmptyFrame({})] : t \in StandingsTables}

\* lines 296-300
RenderStandings ==
    /\ fcall.fn = "top_countries"
    /\ fcall.pc = "call"
    /\ LET charted(filtered_medals) ==
               fcall' = [fcall EXCEPT !.pc = "done",
                                      !.filtered_medals = filtered_medals,
                                      !.top_countries = top_countries(filtered_medals)]
       IN  charted(WithColumn(fcall.filtered_medals, "total",
                              medal_columns_sum(fcall.filtered_medals)))
    /\ UNCHANGED appvars

NextStandings == RenderStandings

SpecStandings == InitStandings /\ [][NextStandings]_vars

-----------------------------------------------------------------------------
(* pages/4_Daily_Highlights.py *)

\* the order of two moments
RECURSIVE Earlier(_, _)
Earlier(a, b) ==
    IF a = <<>> \/ b = <<>> THEN FALSE
    ELSE Head(a) < Head(b) \/ (Head(a) = Head(b) /\ Earlier(Tail(a), Tail(b)))

\* sorted() of a set of Timestamps
RECURSIVE sorted_dates(_)
sorted_dates(S) ==
    IF S = {} THEN <<>>
    ELSE LET first == CHOOSE t \in S : \A u \in S \ {t} : Earlier(t.value, u.value)
         IN  <<first>> \o sorted_dates(S \ {first})

\* the days in the order of their first row, unsorted
available_dates_as_found(schedule) == FirstSeen(schedule.rows, "day")

\* line 49, sorted(schedule['day'].unique())
available_dates(schedule) == sorted_dates(unique(schedule, "day"))

\* Lines 45-101, with the slider at selected_date_str.  The slider offers
\* formatted_dates and starts at the first of them.
Daily_Highlights_body(data, selected_date_str) ==
    LET filtered(daily_schedule, daily_medals) ==
            [total_events   |-> nrows(daily_schedule),
             medal_events   |-> nrows(keep_eq(daily_schedule, "event_medal", 1)),
             medals_awarded |-> nrows(daily_medals)]
        day(d, selected_date) ==
            filtered(keep_eq(d.schedule, "day", selected_date),
                     keep_eq(d.medals, "medal_date", selected_date))
    IN  day(Daily_Highlights_dates(data), to_datetime(selected_date_str))

\* the texts the slider offers (lines 49-53)
formatted_dates(data) ==
    LET format(dates) == [i \in 1..Len(dates) |-> strftime_day(dates[i])]
    IN  format(available_dates(Daily_Highlights_dates(data).schedule))

\* rows of schedules.csv: three days, not in the order of the calendar
SchedulePool ==
    { ScheduleRow(d, m, "Judo") :
        d \in {<<2024, 7, 28>>, <<2024, 7, 27>>, <<2024, 8, 1>>}, m \in {0, 1} }

\* the schedules.csv files: at least one row
ScheduleTables ==
    { Frame({"day", "event_medal", "discipline"}, rws) :
        rws \in SeqsUpTo(SchedulePool, MaxRows + 1) \ {<<>>} }

InitDaily ==
    /\ AppIdle
    /\ fcall \in {[fn |-> "Daily_Highlights", pc |-> "call",
                   data |-> [schedule |-> t, medals |-> MedalsCsv],
                   options |-> <<>>, selected |-> DateStr(<<>>), default |-> FALSE,
                   metrics |-> <<>>] : t \in ScheduleTables}

\* the page runs for the first time: the slider is at its default
RenderDailyDefault ==
    /\ fcall.fn = "Daily_Highlights"
    /\ fcall.pc = "call"
    /\ LET first(options) ==
               fcall' = [fcall EXCEPT
                            !.pc = "done", !.options = options, !.default = TRUE,
                            !.selected = options[1],
                            !.metrics = Daily_Highlights_body(fcall.data, options[1])]
       IN  first(formatted_dates(fcall.data))
    /\ UNCHANGED appvars

\* the page runs with the slider at a date the user chose
RenderDaily ==
    /\ fcall.fn = "Daily_Highlights"
    /\ fcall.pc = "call"
    /\ LET chosen(options) ==
               \E k \in 1..Len(options) :
                   fcall' = [fcall EXCEPT
                                !.pc = "done", !.options = options,
                                !.selected = options[k],
                                !.metrics = Daily_Highlights_body(fcall.data, options[k])]
       IN  chosen(formatted_dates(fcall.data))
    /\ UNCHANGED appvars

NextDaily == RenderDailyDefault \/ RenderDaily

SpecDaily == InitDaily /\ [][NextDaily]_vars

-----------------------------------------------------------------------------
(* Properties *)

CalledApplyFilters == fcall.fn = "apply_filters" /\ fcall.pc = "done"

\* C1: apply_filters returns only rows of the input table: the result has the
\* columns of the input, every row of the result is the input row with the
\* same index label, no label occurs twice, and so the result has at most as
\* many rows as the input.
C1_FilteredRowsAreInputRows ==
    CalledApplyFilters =>
        LET data == fcall.data
            ret  == fcall.ret
        IN  /\ ret.columns = data.columns
            /\ Len(ret.index) = nrows(ret)
            /\ \A k \in 1..nrows(ret) :
                  \E i \in 1..nrows(data) :
                      data.index[i] = ret.index[k] /\ data.rows[i] = ret.rows[k]
            /\ \A k1, k2 \in 1..nrows(ret) :
                  ret.index[k1] = ret.index[k2] => k1 = k2
            /\ nrows(ret) <= nrows(data)

\* a call with a selection that keeps some rows of the table and drops others
C1_Witness ==
    /\ CalledApplyFilters
    /\ 0 < nrows(fcall.ret)
    /\ nrows(fcall.ret) < nrows(fcall.data)

\* the dictionary without the keys whose list is empty
WithoutEmpty(f) == [k \in {j \in DOMAIN f : f[j] # <<>>} |-> f[k]]

\* C2: an empty list under a key of the filters dictionary filters nothing: the
\* result is the result for the dictionary without that key; when every key is
\* empty or absent the result has the rows of the input in the same order.
C2_EmptyListIsNoFilter ==
    CalledApplyFilters =>
        /\ fcall.ret = apply_filters(fcall.data, WithoutEmpty(fcall.filters))
        /\ (DOMAIN WithoutEmpty(fcall.filters) = {}) =>
              /\ fcall.ret.rows = fcall.data.rows
              /\ fcall.ret.index = fcall.data.index
              /\ fcall.ret.columns = fcall.data.columns

\* a call with an empty country list on a table with country codes, while the
\* medal types are filtered
C2_Witness ==
    /\ CalledApplyFilters
    /\ "countries" \in DOMAIN fcall.filters
    /\ fcall.filters["countries"] = <<>>
    /\ "country_code" \in fcall.data.columns
    /\ Selected(fcall.filters, "medal_types")
    /\ 0 < nrows(fcall.ret)
    /\ nrows(fcall.ret) < nrows(fcall.data)

Rendered_medals == page \in {"Overview", "Global_Analysis"}

\* C3: after a page has left-joined the medals table to the enriched NOC table,
\* every medals row has a continent that is one of the six continents or
\* "Other", never a missing value.
C3_EveryMedalsRowHasContinent ==
    Rendered_medals =>
        \A i \in 1..nrows(out.merged) :
            out.merged.rows[i]["continent"] \in Continents \cup {"Other"}

\* C4: on the Overview page the Total Medals KPI is the sum of the Gold, Silver
\* and Bronze counts of the medal distribution chart, and the total of every
\* country of the top-10 chart is its Gold Medal + Silver Medal + Bronze Medal.
C4_TotalIsSumOfMedalTypes ==
    page = "Overview" =>
        /\ out.total_medals =
              out.medal_dist.Gold + out.medal_dist.Silver + out.medal_dist.Bronze
        /\ \A i \in 1..nrows(out.top_countries) :
              LET r == out.top_countries.rows[i]
              IN  r["total"] = r[GOLD] + r[SILVER] + r[BRONZE]

\* the Overview page rendered after a change of the filters that leaves some
\* countries with medals and drops others
C4_Witness ==
    /\ page = "Overview"
    /\ lastEvent = "change"
    /\ out.filters.countries # <<>>
    /\ out.total_medals > 0
    /\ 0 < nrows(out.top_countries)
    /\ nrows(out.filtered_medals) < nrows(out.merged)

\* C5: whatever pages are rendered and whatever the user does, every CSV file
\* is read from disk at most once.
C5_EachFileReadAtMostOnce ==
    \A f \in Files : reads[f] <= 1

\* a script run caused by a change of a widget, after the run that loaded the
\* files: every file has been read, and the page got its data from the cache
C5_Witness ==
    /\ lastEvent = "change"
    /\ \A f \in Files : reads[f] = 1
    /\ {"get_data", "load_all_data", "load_nocs"} \subseteq DOMAIN cache
    /\ out.loaded = cache["load_all_data"]

\* C6: no page render changes a loaded table: when a render ends, every table
\* obtained from load_all_data has the columns and values it was loaded with.
C6_LoadedTablesUnchanged ==
    page # "none" => out.data = out.loaded

WithoutKey(f, key) == [k \in DOMAIN f \ {key} |-> f[k]]

\* C8: selecting all three medal types keeps the rows that no medal-type filter
\* keeps, for any table with a medal_type column and any other filters.
C8_AllMedalTypesIsNoFilter ==
    ( /\ CalledApplyFilters
      /\ "medal_type" \in fcall.data.columns
      /\ "medal_types" \in DOMAIN fcall.filters
      /\ fcall.filters["medal_types"] = medal_types )
    => fcall.ret = apply_filters(fcall.data, WithoutKey(fcall.filters, "medal_types"))

CalledSummary == fcall.fn = "get_filter_summary" /\ fcall.pc = "done"

\* the number of values selected under a key, 0 for an absent key
NumSelected(f, key) == IF key \in DOMAIN f THEN Len(f[key]) ELSE 0

\* C9: get_filter_summary returns "No filters active (showing all data)"
\* exactly when countries, continents and sports are empty or absent and
\* medal_types is empty, absent or holds all three types; otherwise "Active
\* filters: " and one part per active category with the number of its selected
\* values, in the order countries, continents, sports, medal types, joined by
\* ", ", the medal types only when one or two are selected.
C9_FilterSummary ==
    CalledSummary =>
        LET f == fcall.filters
            categories == << [key |-> "countries", words |-> " countries"],
                             [key |-> "continents", words |-> " continents"],
                             [key |-> "sports", words |-> " sports"],
                             [key |-> "medal_types", words |-> " medal types"] >>
            active(c) == IF c.key = "medal_types"
                         THEN NumSelected(f, c.key) \in {1, 2}
                         ELSE NumSelected(f, c.key) > 0
            parts == SelectSeq(categories, active)
            nothing ==
                /\ \A k \in {"countries", "continents", "sports"} : NumSelected(f, k) = 0
                /\ \/ NumSelected(f, "medal_types") = 0
                   \/ Range(f["medal_types"]) = Range(medal_types)
        IN  /\ nothing <=> fcall.ret = "No filters active (showing all data)"
            /\ ~nothing =>
                  fcall.ret = "Active filters: "
                      \o join(", ", [i \in 1..Len(parts) |->
                            ToString(NumSelected(f, parts[i].key)) \o parts[i].words])

\* a summary of two countries and one medal type
C9_Witness ==
    /\ CalledSummary
    /\ fcall.ret = "Active filters: 2 countries, 1 medal types"

\* C10: on the render that follows a click on 'Clear All Filters' no country,
\* continent or sport is selected and the three medal boxes are checked.
C10_ClearResetsWidgets ==
    lastEvent = "clear" =>
        out.filters = [countries |-> <<>>, continents |-> <<>>, sports |-> <<>>,
                       medal_types |-> medal_types]

\* C11: on every render of a page with the sidebar, create_sidebar_filters
\* returns a dictionary with exactly the keys countries, continents, sports and
\* medal_types; medal_types is a duplicate-free sub-list of the three medal
\* types in their order; the countries, continents and sports are among the
\* NOC codes, the NOC continents and the event sports; on a first render
\* nothing is selected, medal_types holds all three and get_filter_summary
\* reports no active filter.
C11_SidebarFilters ==
    page \in SidebarPages =>
        /\ DOMAIN out.filters = {"countries", "continents", "sports", "medal_types"}
        /\ \E S \in SUBSET Range(medal_types) :
              out.filters.medal_types = SelectSeq(medal_types, LAMBDA m : m \in S)
        /\ Range(out.filters.countries) \subseteq unique(out.loaded.nocs, "code")
        /\ Range(out.filters.continents) \subseteq unique(out.loaded.nocs, "continent")
        /\ Range(out.filters.sports) \subseteq unique(out.loaded.events, "sport")
        /\ lastEvent = "open" =>
              /\ out.filters = [countries |-> <<>>, continents |-> <<>>, sports |-> <<>>,
                                medal_types |-> medal_types]
              /\ out.summary = "No filters active (showing all data)"

\* a render after the user selected a country and unchecked one medal box
C11_Witness ==
    /\ page \in SidebarPages
    /\ lastEvent = "change"
    /\ out.filters.countries # <<>>
    /\ Len(out.filters.medal_types) = 2

RenderedAges == fcall.fn = "Athlete_Performance" /\ fcall.pc = "done"

\* C12: for any filter selection on the Athlete Performance page, the age
\* charts are drawn from at most as many rows as the unfiltered athletes table
\* has, also in the by-sport view.
C12_AgeRowsAtMostAthletes ==
    (RenderedAges /\ fcall.ret.charts) =>
        nrows(fcall.ret.fed) <= nrows(fcall.data.athletes)

\* C13: the 'Continents with Medals' figure of the Global Analysis page, shown
\* as a count out of 6 continents, is never greater than 6.
C13_ContinentsAtMostSix ==
    (fcall.fn = "Global_Analysis" /\ fcall.pc = "done") => fcall.total_continents <= 6

RenderedH2H == fcall.fn = "Head_to_Head" /\ fcall.pc = "done"

\* the elements of a kind among the elements the page shows
ShownOf(kind) == SelectSeq(fcall.shown, LAMBDA e : e.st = kind)

\* the value of the metric with a label
MetricValue(label) ==
    (CHOOSE e \in Range(ShownOf("metric")) : e.label = label).value

\* the sum of the counts of the medal chart for a country
ChartSum(country) ==
    LET bars == SelectSeq(ShownOf("plotly_chart")[1].data, LAMBDA r : r.Country = country)
    IN  SumSeq([i \in 1..Len(bars) |-> bars[i].Count])

\* C14: on the Head-to-Head page the Total Medals shown for a selected country
\* is the sum of the Gold, Silver and Bronze counts shown for it, with or
\* without a Total column in medals_total.
C14_H2HTotalIsSum ==
    (RenderedH2H /\ fcall.country_a # fcall.country_b) =>
        \A c \in {fcall.country_a, fcall.country_b} :
            MetricValue(c \o " Total Medals") = ChartSum(c)

\* C15: with the same code for Country A and Country B the Head-to-Head page
\* shows only the warning, no metric, chart or table; with two different codes
\* it shows the comparison (metrics, the medal chart, the top sports of both)
\* and no warning.
C15_H2HWarningOrComparison ==
    RenderedH2H =>
        IF fcall.country_a = fcall.country_b
        THEN fcall.shown = << [st |-> "warning", body |-> Warning] >>
        ELSE /\ ShownOf("warning") = <<>>
             /\ Len(ShownOf("metric")) = 6
             /\ Len(ShownOf("plotly_chart")) = 1
             /\ Len(ShownOf("dataframe")) + Len(ShownOf("write")) = 2

\* the user chose the same country twice where two were to choose from
C15_Witness ==
    /\ RenderedH2H
    /\ ~fcall.default
    /\ fcall.country_a = fcall.country_b
    /\ nrows(fcall.data.medals_total) > 1
    /\ fcall.shown # <<>>

\* the element shown after the heading of a country's top sports
TopSportsShown(country) ==
    LET at == CHOOSE i \in 1..Len(fcall.shown) :
                  /\ fcall.shown[i].st = "markdown"
                  /\ fcall.shown[i].body = "**" \o country \o " Top Sports**"
    IN  fcall.shown[at + 1]

\* C16: Head-to-Head falls back to zero or empty results: get_medal_counts
\* returns Gold, Silver, Bronze and Total 0 for a country without a row in
\* medals_total; both athlete counts are 0 when the athletes table has no
\* country_code column; a country without rows in the medals table gets no
\* top-sports table and the text 'No medals found.'.
C16_H2HFallbacks ==
    /\ (fcall.fn = "get_medal_counts" /\ fcall.pc = "done" /\ nrows(fcall.df) = 0) =>
          fcall.ret = [Gold |-> 0, Silver |-> 0, Bronze |-> 0, Total |-> 0]
    /\ (RenderedH2H /\ fcall.country_a # fcall.country_b) =>
          /\ "country_code" \notin fcall.data.athletes.columns =>
                /\ MetricValue(fcall.country_a \o " Athletes") = 0
                /\ MetricValue(fcall.country_b \o " Athletes") = 0
          /\ \A c \in {fcall.country_a, fcall.country_b} :
                (\A i \in 1..nrows(fcall.data.medals) :
                    fcall.data.medals.rows[i]["country_code"] # c)
                => TopSportsShown(c) = [st |-> "write", body |-> "No medals found."]

\* a comparison of a country without medals with another, the athletes table
\* having no country_code column
C16_Witness ==
    /\ RenderedH2H
    /\ fcall.country_a = "JPN"
    /\ fcall.country_b = "USA"
    /\ "country_code" \notin fcall.data.athletes.columns
    /\ TopSportsShown("JPN").st = "write"
    /\ TopSportsShown("USA").st = "dataframe"

\* C17: get_iso_code returns the IOC_TO_ISO entry for a code that is a key of
\* the table (GER gives DEU, USA gives USA) and its argument for a code that
\* is no key; for an argument that is not missing the result is not missing.
C17_GetIsoCode ==
    (fcall.fn = "get_iso_code" /\ fcall.pc = "done") =>
        /\ Len(fcall.iso_code) = Len(fcall.country_code)
        /\ \A i \in 1..Len(fcall.country_code) :
              LET code == fcall.country_code[i]
                  iso  == fcall.iso_code[i]
              IN  /\ code \in DOMAIN IOC_TO_ISO => iso = IOC_TO_ISO[code]
                  /\ code \notin DOMAIN IOC_TO_ISO => iso = code
                  /\ code = "GER" => iso = "DEU"
                  /\ code = "USA" => iso = "USA"
                  /\ code # NaN => iso # NaN

\* a column with a code that is translated and a code that is no key
C17_Witness ==
    /\ fcall.fn = "get_iso_code"
    /\ fcall.pc = "done"
    /\ fcall.country_code = <<"GER", "LIB">>
    /\ fcall.iso_code = <<"DEU", "LIB">>

\* a list in the opposite order
Reverse(s) == [i \in 1..Len(s) |-> s[Len(s) + 1 - i]]

\* C18: the result of apply_filters depends on the table and on the sets of
\* selected values only, not on the order of the values in a selection list,
\* and the kept rows are in the order they have in the input table.
C18_FilteringIsDeterministic ==
    CalledApplyFilters =>
        /\ fcall.ret = apply_filters(fcall.data,
                           [k \in DOMAIN fcall.filters |-> Reverse(fcall.filters[k])])
        /\ fcall.ret = apply_filters(fcall.data,
                           [k \in DOMAIN fcall.filters |->
                               fcall.filters[k] \o Reverse(fcall.filters[k])])
        /\ \A k1, k2 \in 1..nrows(fcall.ret) :
              k1 < k2 =>
                  \E i1, i2 \in 1..nrows(fcall.data) :
                      /\ i1 < i2
                      /\ fcall.data.index[i1] = fcall.ret.index[k1]
                      /\ fcall.data.index[i2] = fcall.ret.index[k2]

\* a call that keeps two rows which the selection list names in the other order
C18_Witness ==
    /\ CalledApplyFilters
    /\ "countries" \in DOMAIN fcall.filters
    /\ fcall.filters["countries"] = <<"USA", "FRA">>
    /\ "country_code" \in fcall.data.columns
    /\ nrows(fcall.ret) = 2
    /\ fcall.ret.rows[1]["country_code"] = "FRA"
    /\ fcall.ret.rows[2]["country_code"] = "USA"

\* C19: the Top 10 chart holds min(10, n) rows of the n rows of the filtered
\* medals table; no country left out of the chart has a larger total than a
\* country in it; the rows are handed to the chart in ascending order of
\* total.
C19_TopTenStandings ==
    (fcall.fn = "top_countries" /\ fcall.pc = "done") =>
        LET all == fcall.filtered_medals
            top == fcall.top_countries
            n   == nrows(all)
            charted == Range(top.index)
        IN  /\ nrows(top) = IF n < 10 THEN n ELSE 10
            /\ Cardinality(charted) = nrows(top)
            /\ \A k \in 1..nrows(top) :
                  \E i \in 1..n : all.index[i] = top.index[k] /\ all.rows[i] = top.rows[k]
            /\ \A i \in 1..n :
                  all.index[i] \notin charted =>
                      \A k \in 1..nrows(top) : all.rows[i]["total"] <= top.rows[k]["total"]
            /\ \A k \in 1..(nrows(top) - 1) :
                  top.rows[k]["total"] <= top.rows[k + 1]["total"]

\* a table of twelve countries: two are left out of the chart
C19_Witness ==
    /\ fcall.fn = "top_countries"
    /\ fcall.pc = "done"
    /\ nrows(fcall.filtered_medals) = 12
    /\ nrows(fcall.top_countries) = 10
    /\ fcall.top_countries.rows[10]["country_code"] = "C09"

BornOf(name) ==
    (CHOOSE r \in Range(fcall.data.athletes.rows) : r["name"] = name)["birth_date"]

\* a birth date that is present and is a date
Parses(cell) == cell.dtype = "object" /\ IsDate(cell.value)

\* the row has the age of its athlete, 2024 minus the year of a birth date
\* that parses, and the age is from 10 to 80
AgeIsRight(r) ==
    /\ Parses(BornOf(r["name"]))
    /\ r["age"] = Float(2024 - BornOf(r["name"]).value[1])
    /\ r["age"].value[1] >= 10
    /\ r["age"].value[1] <= 80

\* the athletes of a gender in athletes.csv whose age is present and from 10 to 80
WithAge(gender) ==
    {i \in 1..nrows(fcall.data.athletes) :
        /\ fcall.data.athletes.rows[i]["gender"] = gender
        /\ Parses(fcall.data.athletes.rows[i]["birth_date"])
        /\ 2024 - fcall.data.athletes.rows[i]["birth_date"].value[1] \in 10..80}

\* the athletes of a gender a table of the gender section counts
Counted(table, gender) ==
    SumSeq([i \in 1..nrows(table) |->
               IF table.rows[i]["gender"] = gender THEN table.rows[i]["count"] ELSE 0])

\* C21: on the Athlete Performance page, when the athletes table has a
\* birth_date column, every row the age charts, the gender charts and the
\* athlete statistics use has the age 2024 minus the birth year of its athlete,
\* present and from 10 to 80, and no row of an athlete whose birth date is
\* missing or is no date is used: the gender tables and the statistics count
\* no more athletes of a gender than those with such an age, and the average
\* age is from 10 to 80.
C21_AgesPresentAndPlausible ==
    (RenderedAges /\ "birth_date" \in fcall.data.athletes.columns) =>
        /\ fcall.ret.charts
        /\ \A r \in Range(fcall.ret.fed.rows) \cup Range(fcall.ret.athletes_analysis.rows) :
               AgeIsRight(r)
        /\ \A g \in {"Male", "Female"} :
               /\ Counted(fcall.gender.gender_data, g) <= Cardinality(WithAge(g))
               /\ Counted(fcall.gender.chart, g) <= Cardinality(WithAge(g))
        /\ fcall.statistics.male_count <= Cardinality(WithAge("Male"))
        /\ fcall.statistics.female_count <= Cardinality(WithAge("Female"))
        /\ \A a \in Range(fcall.statistics.average_age) :
               /\ a.count = nrows(fcall.ret.athletes_analysis)
               /\ 10 * a.count <= a.sum
               /\ a.sum <= 80 * a.count

\* the page has run on an athletes table with an athlete of 80 and an athlete
\* whose birth date is missing or is no date: the age charts, the gender chart
\* and the statistics show the first athlete alone
C21_Witness ==
    /\ RenderedAges
    /\ "birth_date" \in fcall.data.athletes.columns
    /\ nrows(fcall.data.athletes) = 2
    /\ \E i \in 1..2 : ~Parses(fcall.data.athletes.rows[i]["birth_date"])
    /\ nrows(fcall.ret.fed) = 1
    /\ nrows(fcall.ret.athletes_analysis) = 1
    /\ nrows(fcall.gender.chart) = 1
    /\ fcall.gender.chart.rows[1]["count"] = 1
    /\ fcall.statistics.average_age = << [sum |-> 80, count |-> 1] >>

=============================================================================
